---- MODULE Spec2Model ----
(***************************************************************************)
(* Model of the background coordination layer of TaskGoblin                *)
(* (src-tauri/src/lib.rs): the deferred shutdown scheduler                 *)
(* (schedule_shutdown / cancel_shutdown / get_shutdown_time and the timer  *)
(* task they spawn), the window-mode commands (toggle_pet_mode,            *)
(* toggle_paint_mode), the triple-tap key listener (spawn_key_listener),   *)
(* the screenshot-to-clipboard pipeline (process_screenshot_ocr) and the   *)
(* pointer oscillator.  The reference platform is macOS: the               *)
(* cfg(target_os = "macos") branches are the ones modelled.                *)
(***************************************************************************)
EXTENDS Integers, Sequences, FiniteSets, TLC

(***************************************************************************)
(* Bounds of the model.                                                    *)
(***************************************************************************)
MaxCalls == 2        \* schedule_shutdown invocations in one behaviour
MaxDelay == 2        \* largest delay_secs passed to schedule_shutdown
MaxTime  == 2        \* horizon of the wall clock, in seconds
MaxClock == 1040     \* horizon of the key listener's clock, in milliseconds
MaxRuns  == 2
MaxDrift == 2        \* process_screenshot_ocr runs in one behaviour

Calls  == 1..MaxCalls
Delays == 0..MaxDelay
Runs   == 1..MaxRuns

None     == -1       \* Option::None of shutdown_target / shutdown_duration
\* Names of the commands in the bookkeeping of call order.
NoOp       == <<"none">>
CancelOp   == <<"cancel">>
SchedOp(c) == <<"schedule", c>>

VARIABLES
    now,                 \* wall clock / tokio clock, seconds
    shutdown_cancel_tx,  \* AppState.shutdown_cancel_tx: 0 = None, c = Sender of call c
    shutdown_target,     \* AppState.shutdown_target: None or Some(secs)
    shutdown_duration,   \* AppState.shutdown_duration: None or Some(secs)
    tx_lock,             \* holder of the shutdown_cancel_tx mutex across awaits
    island,              \* the "island" countdown window exists
    call,                \* call[c]: one schedule_shutdown invocation and its locals
    timer,               \* timer[c]: the task spawned by call c
    signalled,           \* signalled[c]: () was sent on call c's oneshot channel
    shutdowns,           \* shutdowns[c]: times timer c ran the shutdown command
    cancel,              \* the cancel_shutdown invocation in progress
    stat,                \* the get_shutdown_time invocation in progress
    serial,              \* the front end awaits each command before the next
    log,                 \* serial behaviours: the last command that returned
    retired              \* serial behaviours: who signalled c's handle before its sleep ran out

schedVars == <<now, shutdown_cancel_tx, shutdown_target, shutdown_duration,
               tx_lock, island, call, timer, signalled, shutdowns, cancel,
               stat, serial, log, retired>>

VARIABLES
    gnow,                \* Instant::now() of the key listener thread, ms
    last_tap,            \* spawn_key_listener: last_tap
    tap_count,           \* spawn_key_listener: tap_count
    ctrl_was_pressed,    \* spawn_key_listener: ctrl_was_pressed
    triggers,            \* pipeline tasks spawned by the listener so far
    prevEdge,            \* time of the previous rising edge, None before the first
    hist,                \* the last three rising edges: short gap? started a run?
    slow                 \* every gap between two rising edges so far was >= Debounce

gestureVars == <<gnow, last_tap, tap_count, ctrl_was_pressed, triggers,
                 prevEdge, hist, slow>>

VARIABLES
    run,                 \* run[r]: one process_screenshot_ocr invocation
    file,                \* the temporary capture file: 0 = absent, r = written by run r
    clipboard            \* the text on the clipboard

pipeVars == <<run, file, clipboard>>

VARIABLES
    main_visible         \* the main window is visible

winVars == <<main_visible>>

VARIABLES
    is_pet_mode,         \* AppState.is_pet_mode
    is_paint_mode,       \* AppState.is_paint_mode
    is_dialog_open,      \* AppState.is_dialog_open
    pet,                 \* the toggle_pet_mode invocation in progress
    paint,               \* the toggle_paint_mode invocation in progress
    focus,               \* the focus handler of the main window
    win                  \* the main window: maximized and on top? ignoring the cursor?

modeVars == <<is_pet_mode, is_paint_mode, is_dialog_open, pet, paint, focus,
              win>>

VARIABLES
    mouse_moving,        \* AppState.mouse_moving
    mm_lock,             \* holder of the mouse_moving mutex
    tray,                \* the task spawned by the "toggle" menu event
    cmd,                 \* the toggle_mouse invocation in progress
    tray_label,          \* text of the "toggle" menu item
    toggled_odd,         \* an odd number of toggles has completed
    osc,                 \* the oscillator task: position, copy of the flag, direction
    moves,               \* the move_mouse calls: the last two dx, and a bit that flips at each call
    offset,              \* the sum of the dx of the move_mouse calls that moved the pointer
    all_ok               \* every move_mouse call so far has returned Ok

pointerVars == <<mouse_moving, mm_lock, tray, cmd, tray_label, toggled_odd,
                 osc, moves, offset, all_ok>>

VARIABLES
    at                   \* at[t]: the lock operation that task t executes next

lockVars == <<at>>

vars == <<schedVars, gestureVars, pipeVars, winVars, modeVars, pointerVars,
          lockVars>>

\* What a step of one component leaves alone.
schedFrame == <<gestureVars, pipeVars, winVars, modeVars, pointerVars,
                lockVars>>
gestureFrame == <<schedVars, pipeVars, winVars, modeVars, pointerVars,
                  lockVars>>
pipeFrame == <<schedVars, gestureVars, modeVars, pointerVars, lockVars>>
modeFrame == <<schedVars, gestureVars, pipeVars, pointerVars, lockVars>>
pointerFrame == <<schedVars, gestureVars, pipeVars, winVars, modeVars,
                  lockVars>>
lockFrame == <<schedVars, gestureVars, pipeVars, winVars, modeVars,
               pointerVars>>

(***************************************************************************)
(* Scheduler: helpers.                                                     *)
(***************************************************************************)
SchedRunning(c) == call[c].pc \in {"tx", "target", "duration", "window"}
SchedReturned(c) == call[c].pc \in {"ok", "err"}
CancelRunning == cancel.pc # "idle"
StatRunning == stat.pc # "idle"
AnyRunning == (\E c \in Calls : SchedRunning(c)) \/ CancelRunning \/ StatRunning

\* The Receiver half of call c's oneshot channel still exists: it is the
\* local new_rx of a running call, or it is owned by the live timer task.
RxAlive(c) == \/ call[c].pc \in {"target", "duration", "window"}
              \/ timer[c].state \in {"spawned", "sleeping"}

\* The sleep of call c's timer task has run out.
Elapsed(c) == \/ timer[c].state = "fired"
              \/ timer[c].state = "sleeping" /\ now >= timer[c].deadline

\* tx_lock.take() followed by tx.send(()): the value is stored unless there
\* is no Sender or its Receiver was dropped.
TakeAndSend_KeepOld == signalled
TakeAndSend ==
    [c \in Calls |-> signalled[c] \/ (c = shutdown_cancel_tx /\ RxAlive(c))]

\* The answer of get_shutdown_time is looked at before anything else
\* happens; in a serial behaviour a command is invoked only when the
\* previous one has returned.
Ready == stat.pc # "done"
MayInvoke == Ready /\ (serial => ~AnyRunning)

\* lib.rs 527-531: now().duration_since(UNIX_EPOCH).as_secs() + delay_secs
TargetTimestamp_NoDelay(t, d) == t
TargetTimestamp(t, d) == t + d

\* Bookkeeping of the order and the times of the calls is kept in serial
\* behaviours only.
Note(x, dflt) == IF serial THEN x ELSE dflt
NoLog == [last |-> NoOp, prev |-> NoOp, d |-> 0, start |-> None, ret |-> None]
\* Operation `by` takes the installed handle: it is noted when that handle
\* is the one of a returned call whose sleep has not run out.
Retire(by) ==
    [c \in Calls |->
        IF serial /\ c = shutdown_cancel_tx /\ SchedReturned(c) /\ ~Elapsed(c)
          THEN by ELSE retired[c]]

(***************************************************************************)
(* Initial state: AppState as built in run() (lib.rs 1040-1048); no        *)
(* command has been invoked yet.                                           *)
(***************************************************************************)
IdleCall == [pc |-> "idle", d |-> 0, tgt |-> None]
NoTimer == [state |-> "none", d |-> 0, deadline |-> None]
IdleStat == [pc |-> "idle", tgt |-> None, dur |-> None]

SchedInit ==
    /\ now = 0
    /\ shutdown_cancel_tx = 0
    /\ shutdown_target = None
    /\ shutdown_duration = None
    /\ tx_lock = "free"
    /\ island = FALSE
    /\ call = [c \in Calls |-> IdleCall]
    /\ timer = [c \in Calls |-> NoTimer]
    /\ signalled = [c \in Calls |-> FALSE]
    /\ shutdowns = [c \in Calls |-> 0]
    /\ cancel = [pc |-> "idle"]
    /\ stat = IdleStat
    /\ log = NoLog
    /\ retired = [c \in Calls |-> NoOp]

(***************************************************************************)
(* schedule_shutdown(delay_secs), lib.rs 502-604.  One action per stretch  *)
(* of code between two await points.                                       *)
(***************************************************************************)

ScheduleBegin_NoCheck(c, d) ==
    /\ MayInvoke
    /\ call[c].pc = "idle"
    /\ \A b \in Calls : b < c => call[b].pc # "idle"
    /\ now + d <= MaxTime
    /\ call' = [call EXCEPT ![c] = [pc  |-> "tx",
                                    d   |-> d,
                                    tgt |-> None]]
    /\ log' = IF d = 0 THEN NoLog
              ELSE Note([last |-> NoOp, prev |-> log.last, d |-> d,
                         start |-> now, ret |-> None], NoLog)
    /\ UNCHANGED <<now, shutdown_cancel_tx, shutdown_target,
                   shutdown_duration, tx_lock, island, timer, signalled,
                   shutdowns, cancel, stat, serial, retired,
                   schedFrame>>

\* lib.rs 509-511: the call is invoked; delay_secs == 0 returns Err at once.
ScheduleBegin(c, d) ==
    /\ MayInvoke
    /\ call[c].pc = "idle"
    /\ \A b \in Calls : b < c => call[b].pc # "idle"
    /\ now + d <= MaxTime
    /\ call' = [call EXCEPT ![c] = [pc  |-> IF d = 0 THEN "err" ELSE "tx",
                                    d   |-> IF d = 0 THEN 0 ELSE d,
                                    tgt |-> None]]
    /\ log' = IF d = 0 THEN NoLog
              ELSE Note([last |-> NoOp, prev |-> log.last, d |-> d,
                         start |-> now, ret |-> None], NoLog)
    /\ UNCHANGED <<now, shutdown_cancel_tx, shutdown_target,
                   shutdown_duration, tx_lock, island, timer, signalled,
                   shutdowns, cancel, stat, serial, retired,
                   schedFrame>>

\* lib.rs 514-531: under the shutdown_cancel_tx lock, take and signal the
\* previous Sender, install the new one; then read the clock.
ScheduleSwapTx(c) ==
    /\ Ready
    /\ call[c].pc = "tx"
    /\ tx_lock = "free"
    /\ signalled' = TakeAndSend
    /\ retired' = Retire(SchedOp(c))
    /\ shutdown_cancel_tx' = c
    /\ call' = [call EXCEPT ![c].pc = "target", ![c].tgt = TargetTimestamp(now, call[c].d)]
    /\ UNCHANGED <<now, shutdown_target, shutdown_duration, tx_lock, island,
                   timer, shutdowns, cancel, stat, serial, log,
                   schedFrame>>

\* lib.rs 534
ScheduleSetTarget(c) ==
    /\ Ready
    /\ call[c].pc = "target"
    /\ shutdown_target' = call[c].tgt
    /\ call' = [call EXCEPT ![c].pc = "duration"]
    /\ UNCHANGED <<now, shutdown_cancel_tx, shutdown_duration, tx_lock,
                   island, timer, signalled, shutdowns, cancel, stat, serial,
                   log, retired,
                   schedFrame>>

\* lib.rs 535
ScheduleSetDuration(c) ==
    /\ Ready
    /\ call[c].pc = "duration"
    /\ shutdown_duration' = call[c].d
    /\ call' = [call EXCEPT ![c].pc = "window"]
    /\ UNCHANGED <<now, shutdown_cancel_tx, shutdown_target, tx_lock,
                   island, timer, signalled, shutdowns, cancel, stat, serial,
                   log, retired,
                   schedFrame>>

\* lib.rs 538-598: close the old island window and build the new one.  A
\* build error is propagated by `?`: the call returns Err and new_rx is
\* dropped.  Otherwise the window is centred (best-effort, no effect on
\* the state), the timer task is spawned with delay_secs and new_rx moved
\* into it, and the call returns Ok.
ScheduleWindow(c, built) ==
    /\ Ready
    /\ call[c].pc = "window"
    /\ island' = built
    /\ timer' = IF built
                  THEN [timer EXCEPT ![c] = [state |-> "spawned",
                                             d |-> call[c].d,
                                             deadline |-> None]]
                  ELSE timer
    /\ call' = [call EXCEPT ![c] = [pc |-> IF built THEN "ok" ELSE "err",
                                    d |-> 0, tgt |-> None]]
    /\ log' = Note([log EXCEPT !.last = SchedOp(c), !.ret = now], NoLog)
    /\ UNCHANGED <<now, shutdown_cancel_tx, shutdown_target,
                   shutdown_duration, tx_lock, signalled, shutdowns, cancel,
                   stat, serial, retired,
                   schedFrame>>

(***************************************************************************)
(* The timer task, lib.rs 577-596: tokio::select! over sleep(delay_secs)   *)
(* and the Receiver.  select! polls its branches in an unspecified order   *)
(* and takes the first one that is ready.                                  *)
(***************************************************************************)

\* First poll of the task: the Sleep is created (deadline = now + d) and
\* cannot be ready yet; the Receiver is ready if () was already sent.
TimerStart(c) ==
    /\ Ready
    /\ timer[c].state = "spawned"
    /\ timer' = [timer EXCEPT ![c] =
                   IF signalled[c]
                     THEN [state |-> "aborted", d |-> 0, deadline |-> None]
                     ELSE [state |-> "sleeping", d |-> 0,
                           deadline |-> now + timer[c].d]]
    /\ UNCHANGED <<now, shutdown_cancel_tx, shutdown_target,
                   shutdown_duration, tx_lock, island, call, signalled,
                   shutdowns, cancel, stat, serial, log, retired,
                   schedFrame>>

TimerFire_NoShutdown(c) ==
    /\ Ready
    /\ timer[c].state = "sleeping"
    /\ now >= timer[c].deadline
    /\ shutdowns' = shutdowns
    /\ island' = FALSE
    /\ timer' = [timer EXCEPT ![c] = [state |-> "fired", d |-> 0,
                                      deadline |-> None]]
    /\ UNCHANGED <<now, shutdown_cancel_tx, shutdown_target,
                   shutdown_duration, tx_lock, call, signalled, cancel, stat,
                   serial, log, retired,
                   schedFrame>>

\* lib.rs 579-590: the sleep branch is taken: run the shutdown command,
\* then close the island window.  AppState is not touched.
TimerFire(c) ==
    /\ Ready
    /\ timer[c].state = "sleeping"
    /\ now >= timer[c].deadline
    /\ shutdowns' = [shutdowns EXCEPT ![c] = @ + 1]
    /\ island' = FALSE
    /\ timer' = [timer EXCEPT ![c] = [state |-> "fired", d |-> 0,
                                      deadline |-> None]]
    /\ UNCHANGED <<now, shutdown_cancel_tx, shutdown_target,
                   shutdown_duration, tx_lock, call, signalled, cancel, stat,
                   serial, log, retired,
                   schedFrame>>

\* lib.rs 591-594: the Receiver branch is taken.
TimerAbort(c) ==
    /\ Ready
    /\ timer[c].state = "sleeping"
    /\ signalled[c]
    /\ timer' = [timer EXCEPT ![c] = [state |-> "aborted", d |-> 0,
                                      deadline |-> None]]
    /\ UNCHANGED <<now, shutdown_cancel_tx, shutdown_target,
                   shutdown_duration, tx_lock, island, call, signalled,
                   shutdowns, cancel, stat, serial, log, retired,
                   schedFrame>>

(***************************************************************************)
(* cancel_shutdown, lib.rs 606-624.  The tx_lock guard lives until the     *)
(* function returns.                                                       *)
(***************************************************************************)

\* lib.rs 611-614
CancelTakeTx ==
    /\ MayInvoke
    /\ cancel.pc = "idle"
    /\ tx_lock = "free"
    /\ tx_lock' = "cancel"
    /\ signalled' = TakeAndSend
    /\ retired' = Retire(CancelOp)
    /\ shutdown_cancel_tx' = 0
    /\ cancel' = [pc |-> "target"]
    /\ log' = NoLog
    /\ UNCHANGED <<now, shutdown_target, shutdown_duration, island, call,
                   timer, shutdowns, stat, serial,
                   schedFrame>>

\* lib.rs 616
CancelClearTarget ==
    /\ Ready
    /\ cancel.pc = "target"
    /\ shutdown_target' = None
    /\ cancel' = [pc |-> "duration"]
    /\ UNCHANGED <<now, shutdown_cancel_tx, shutdown_duration, tx_lock,
                   island, call, timer, signalled, shutdowns, stat, serial,
                   log, retired,
                   schedFrame>>

\* lib.rs 617-623: clear the duration, close the island window, return
\* (dropping the tx_lock guard).
CancelFinish ==
    /\ Ready
    /\ cancel.pc = "duration"
    /\ shutdown_duration' = None
    /\ island' = FALSE
    /\ tx_lock' = "free"
    /\ cancel' = [pc |-> "idle"]
    /\ log' = Note([NoLog EXCEPT !.last = CancelOp], NoLog)
    /\ UNCHANGED <<now, shutdown_cancel_tx, shutdown_target, call, timer,
                   signalled, shutdowns, stat, serial, retired,
                   schedFrame>>

(***************************************************************************)
(* get_shutdown_time, lib.rs 626-635.                                      *)
(***************************************************************************)

\* lib.rs 628
StatusReadTarget ==
    /\ MayInvoke
    /\ stat.pc = "idle"
    /\ stat' = [pc |-> "duration", tgt |-> shutdown_target, dur |-> None]
    /\ UNCHANGED <<now, shutdown_cancel_tx, shutdown_target,
                   shutdown_duration, tx_lock, island, call, timer,
                   signalled, shutdowns, cancel, serial, log, retired,
                   schedFrame>>

\* lib.rs 629-634
StatusReadDuration ==
    /\ stat.pc = "duration"
    /\ stat' = [stat EXCEPT !.pc = "done", !.dur = shutdown_duration]
    /\ UNCHANGED <<now, shutdown_cancel_tx, shutdown_target,
                   shutdown_duration, tx_lock, island, call, timer,
                   signalled, shutdowns, cancel, serial, log, retired,
                   schedFrame>>

\* The answer has been delivered to the caller.
StatusReturn ==
    /\ stat.pc = "done"
    /\ stat' = IdleStat
    /\ UNCHANGED <<now, shutdown_cancel_tx, shutdown_target,
                   shutdown_duration, tx_lock, island, call, timer,
                   signalled, shutdowns, cancel, serial, log, retired,
                   schedFrame>>

\* The JSON answer of get_shutdown_time: Option::unwrap_or(0).
UnwrapOr0(o) == IF o = None THEN 0 ELSE o
StatusResult == [target_timestamp |-> UnwrapOr0(stat.tgt),
                 duration_secs |-> UnwrapOr0(stat.dur)]

(***************************************************************************)
(* Passage of time.  The clock stops at the horizon, and does not run a    *)
(* sleep that is still to be created past it.                              *)
(***************************************************************************)
Tick ==
    /\ Ready
    /\ now < MaxTime
    /\ \A c \in Calls : SchedRunning(c) => now + 1 + call[c].d <= MaxTime
    /\ \A c \in Calls :
          timer[c].state = "spawned" => now + 1 + timer[c].d <= MaxTime
    /\ now' = now + 1
    /\ UNCHANGED <<shutdown_cancel_tx, shutdown_target, shutdown_duration,
                   tx_lock, island, call, timer, signalled, shutdowns,
                   cancel, stat, serial, log, retired,
                   schedFrame>>

SchedNext ==
    \/ \E c \in Calls, d \in Delays : ScheduleBegin(c, d)
    \/ \E c \in Calls : ScheduleSwapTx(c)
    \/ \E c \in Calls : ScheduleSetTarget(c)
    \/ \E c \in Calls : ScheduleSetDuration(c)
    \/ \E c \in Calls, built \in BOOLEAN : ScheduleWindow(c, built)
    \/ \E c \in Calls : TimerStart(c)
    \/ \E c \in Calls : TimerFire(c)
    \/ \E c \in Calls : TimerAbort(c)
    \/ CancelTakeTx
    \/ CancelClearTarget
    \/ CancelFinish
    \/ StatusReadTarget
    \/ StatusReadDuration
    \/ StatusReturn
    \/ Tick

\* The commands that write AppState, their timer tasks and the clock;
\* get_shutdown_time only reads.
CommandNext ==
    \/ \E c \in Calls, d \in Delays : ScheduleBegin(c, d)
    \/ \E c \in Calls : ScheduleSwapTx(c)
    \/ \E c \in Calls : ScheduleSetTarget(c)
    \/ \E c \in Calls : ScheduleSetDuration(c)
    \/ \E c \in Calls, built \in BOOLEAN : ScheduleWindow(c, built)
    \/ \E c \in Calls : TimerStart(c)
    \/ \E c \in Calls : TimerFire(c)
    \/ \E c \in Calls : TimerAbort(c)
    \/ CancelTakeTx
    \/ CancelClearTarget
    \/ CancelFinish
    \/ Tick

\* schedule_shutdown calls only, their timer tasks and the clock.
ScheduleNext ==
    \/ \E c \in Calls, d \in Delays : ScheduleBegin(c, d)
    \/ \E c \in Calls : ScheduleSwapTx(c)
    \/ \E c \in Calls : ScheduleSetTarget(c)
    \/ \E c \in Calls : ScheduleSetDuration(c)
    \/ \E c \in Calls, built \in BOOLEAN : ScheduleWindow(c, built)
    \/ \E c \in Calls : TimerStart(c)
    \/ \E c \in Calls : TimerFire(c)
    \/ \E c \in Calls : TimerAbort(c)
    \/ Tick

(***************************************************************************)
(* spawn_key_listener, lib.rs 964-1002: the triple-tap detector.           *)
(***************************************************************************)
PollInterval  == 20      \* lib.rs 999
Debounce      == 500     \* lib.rs 979
TapsToTrigger == 3       \* lib.rs 986
\* thread::sleep(20 ms) returns after 20 ms or later.
PollGaps == {PollInterval, (Debounce - PollInterval) \div 2,
             Debounce - PollInterval}

\* lib.rs 979-983
TapCountAfter_Inclusive(count, gap) ==
    IF gap <= Debounce THEN count + 1 ELSE 1
TapCountAfter(count, gap) ==
    IF gap < Debounce THEN count + 1 ELSE 1

\* lib.rs 986-987
ResetAfterTrigger_Keep(count) == count
ResetAfterTrigger(count) == IF count = TapsToTrigger THEN 0 ELSE count

\* lib.rs 977: a press is the key down in this poll and up in the last.
RisingEdge_Level(is_pressed, was_pressed) == is_pressed
RisingEdge(is_pressed, was_pressed) == is_pressed /\ ~was_pressed

\* lib.rs 966-969
GestureInit ==
    /\ gnow = 0
    /\ last_tap = 0
    /\ tap_count = 0
    /\ ctrl_was_pressed = FALSE
    /\ triggers = 0
    /\ prevEdge = None
    /\ hist = <<>>
    /\ slow = TRUE

Last3(h) == IF Len(h) > 3 THEN Tail(h) ELSE h

\* lib.rs 971-1000: one iteration of the loop: read the keys, handle a
\* rising edge, remember the key state, sleep.
KeyPoll(ctrl_is_pressed, dt) ==
    LET edge    == RisingEdge(ctrl_is_pressed, ctrl_was_pressed)
        counted == TapCountAfter(tap_count, gnow - last_tap)
        spawn   == edge /\ counted = TapsToTrigger
        short   == prevEdge # None /\ gnow - prevEdge < Debounce
    IN  /\ gnow + dt <= MaxClock
        /\ tap_count' = IF edge THEN ResetAfterTrigger(counted) ELSE tap_count
        /\ last_tap' = IF edge THEN gnow ELSE last_tap
        /\ triggers' = IF spawn THEN triggers + 1 ELSE triggers
        /\ ctrl_was_pressed' = ctrl_is_pressed
        /\ gnow' = gnow + dt
        /\ prevEdge' = IF edge THEN gnow ELSE prevEdge
        /\ hist' = IF edge
                     THEN Last3(Append(hist, [short |-> short, ran |-> spawn]))
                     ELSE hist
        /\ slow' = (slow /\ ~(edge /\ short))
        /\ UNCHANGED gestureFrame

GestureNext ==
    \E ctrl_is_pressed \in BOOLEAN, dt \in PollGaps :
        KeyPoll(ctrl_is_pressed, dt)

(***************************************************************************)
(* process_screenshot_ocr, lib.rs 926-951, with extract_text_from_screen   *)
(* (638-740), write_to_clipboard (743-769) and notify_user (771-784).      *)
(* One action per stretch of code between two await points; the external   *)
(* processes (screencapture, swift, pbcopy) report one of a few outcomes.  *)
(***************************************************************************)
\* Command::output() of `screencapture -i -x`: the process could not be
\* started; the user selected a region (the file is written); the user
\* pressed Escape (no file); the process exited with a failure status
\* (no file).
CaptureOutcomes == {"spawn_err", "selected", "aborted", "exit_err"}
\* Command::output() of `swift -e`: could not be started; recognised text;
\* no text in the image; the script printed its ERROR: diagnostic; the
\* process died with a failure status before printing anything.
OcrOutcomes == {"spawn_err", "text", "empty", "diag", "exit_err"}
\* pbcopy: copied; could not be started; exited with a failure status.
ClipOutcomes == {"ok", "spawn_err", "exit_err"}

\* Strings are sequences of tokens.
Ok(v)  == [ok |-> TRUE,  val |-> v]
Err(e) == [ok |-> FALSE, val |-> e]
NoRet   == [ok |-> TRUE, val |-> <<"pending">>]
NoToast == [title |-> "", message |-> <<>>]
IsSpace(t) == t \in {" ", "\n"}

RECURSIVE TrimStart(_)
TrimStart(s) ==
    IF s # <<>> /\ IsSpace(Head(s)) THEN TrimStart(Tail(s)) ELSE s
RECURSIVE TrimEnd(_)
TrimEnd(s) ==
    IF s # <<>> /\ IsSpace(s[Len(s)])
      THEN TrimEnd(SubSeq(s, 1, Len(s) - 1)) ELSE s
\* str::trim
Trim(s) == TrimEnd(TrimStart(s))
\* str::starts_with
StartsWith(s, t) == Len(s) >= Len(t) /\ SubSeq(s, 1, Len(t)) = t
\* str::contains
Contains(s, t) ==
    \E i \in 1..(Len(s) + 1) :
        i + Len(t) - 1 <= Len(s) /\ SubSeq(s, i, i + Len(t) - 1) = t

\* What the swift script prints (lib.rs 681-710) for the image it finds at
\* the temporary path: `image` is 0 when there is no file, else the run
\* whose capture wrote it.
SwiftStdout(out, image) ==
    IF image = 0 THEN <<"ERROR:", " ", "Failed to load image", "\n">>
    ELSE CASE out = "text"  -> <<"text of capture", ToString(image), "\n">>
           [] out = "empty" -> <<"\n">>
           [] out = "diag"  -> <<"ERROR:", " ", "vision", "\n">>
           [] OTHER         -> <<>>

\* lib.rs 721-731
OcrResult(out, stdout) ==
    IF out = "spawn_err"
      THEN Err(<<"OCR extraction failed: ", "io error">>)
      ELSE IF StartsWith(Trim(stdout), <<"ERROR:">>)
             THEN Err(Trim(stdout))
             ELSE Ok(Trim(stdout))

\* write_to_clipboard, lib.rs 749-763: the exit status of pbcopy is not
\* looked at.
WriteToClipboard(clip) ==
    IF clip = "spawn_err"
      THEN Err(<<"Failed to start pbcopy: ", "io error">>)
      ELSE Ok(<<>>)

\* process_screenshot_ocr once extract_text_from_screen has returned `res`
\* (lib.rs 929-950): the value returned to the caller, the toast handed to
\* notify_user (NoToast: notify_user is not called) and whether
\* write_to_clipboard ran.
ProcessResult(res, clip) ==
    IF res.ok
      THEN IF Trim(res.val) = <<>>
             THEN [ret |-> Ok(<<>>), toast |-> NoToast, clip_ran |-> FALSE]
             ELSE IF ~WriteToClipboard(clip).ok
                    THEN [ret   |-> Err(WriteToClipboard(clip).val),
                          toast |-> [title   |-> "OCR Error",
                                     message |-> <<"Failed to copy: ">>
                                                 \o WriteToClipboard(clip).val],
                          clip_ran |-> TRUE]
                    ELSE [ret   |-> Ok(<<>>),
                          toast |-> [title   |-> "Text Copied!",
                                     message |-> <<"Copied content">>],
                          clip_ran |-> TRUE]
      ELSE [ret |-> Err(res.val),
            toast |-> [title |-> "OCR Failed", message |-> res.val],
            clip_ran |-> FALSE]

\* A run: its position, its local was_visible, the outcomes its external
\* processes reported, what it returned and the toasts it emitted; alone
\* says that no other run has overlapped it.
IdleRun == [pc |-> "idle", was_visible |-> FALSE,
            alone |-> FALSE, cap |-> "none", ocr |-> "none",
            clip |-> "none", stdout |-> <<>>, ret |-> NoRet,
            toasts |-> 0, toast |-> NoToast]

PipeInit ==
    /\ run = [r \in Runs |-> IdleRun]
    /\ file = 0
    /\ clipboard = <<>>

RunActive(r) == run[r].pc \notin {"idle", "done", "closed"}
\* The outcome of a run is looked at before the pipeline goes on.
PipeReady == \A r \in Runs : run[r].pc # "done"

\* lib.rs 927-651: the run starts (from the command or from the task the
\* key listener spawned), remembers the visibility of its window and hides
\* it if it was visible.
PipelineBegin(r) ==
    /\ PipeReady
    /\ run[r].pc = "idle"
    /\ \A q \in Runs : q < r => run[q].pc # "idle"
    /\ run' = [q \in Runs |->
                IF q = r
                  THEN [IdleRun EXCEPT
                          !.pc = IF main_visible THEN "settle" ELSE "capture",
                          !.was_visible = main_visible,
                          !.alone = \A p \in Runs : ~RunActive(p)]
                  ELSE IF RunActive(q) THEN [run[q] EXCEPT !.alone = FALSE]
                       ELSE run[q]]
    /\ main_visible' = IF main_visible THEN FALSE ELSE main_visible
    /\ UNCHANGED <<file, clipboard, pipeFrame>>

\* lib.rs 650: the 300 ms sleep is over.
PipelineSettled(r) ==
    /\ PipeReady
    /\ run[r].pc = "settle"
    /\ run' = [run EXCEPT ![r].pc = "capture"]
    /\ UNCHANGED <<file, clipboard, main_visible, pipeFrame>>

\* lib.rs 657-663: the screencapture process runs on a blocking thread.
CaptureRun(r, out) ==
    /\ PipeReady
    /\ run[r].pc = "capture"
    /\ run' = [run EXCEPT ![r].pc = "captured", ![r].cap = out]
    /\ file' = IF out = "selected" THEN r ELSE file
    /\ UNCHANGED <<clipboard, main_visible, pipeFrame>>

\* Returning from process_screenshot_ocr: notify_user (lib.rs 771-784)
\* shows the main window and emits the toast.
Finish(r, res, clip, visible) ==
    LET p == ProcessResult(res, clip)
    IN  /\ run' = [run EXCEPT ![r].pc = "done",
                              ![r].ret = p.ret,
                              ![r].toast = p.toast,
                              ![r].toasts = IF p.toast = NoToast
                                              THEN @ ELSE @ + 1,
                              ![r].clip = IF p.clip_ran THEN clip ELSE "none",
                              ![r].stdout = <<>>]
        /\ clipboard' = IF p.clip_ran /\ clip = "ok"
                          THEN Trim(res.val) ELSE clipboard
        /\ main_visible' = IF p.toast # NoToast THEN TRUE ELSE visible

\* lib.rs 664-678 and 733: the capture is over; show the window again if
\* it was visible; a spawn error ends the run as a failure, a missing file
\* as a silent success; otherwise the swift process is started.
CaptureDone(r, clip) ==
    LET shown == IF run[r].was_visible THEN TRUE ELSE main_visible
    IN  /\ PipeReady
        /\ run[r].pc = "captured"
        /\ IF run[r].cap = "spawn_err"
             THEN Finish(r, Err(<<"Screencapture failed: ", "io error">>),
                         clip, shown)
             ELSE IF file = 0
                    THEN Finish(r, Ok(<<>>), clip, shown)
                    ELSE /\ run' = [run EXCEPT ![r].pc = "ocr"]
                         /\ main_visible' = shown
                         /\ UNCHANGED clipboard
        /\ UNCHANGED <<file, pipeFrame>>

\* lib.rs 712-714: the swift process runs on a blocking thread and reads
\* the file that is at the temporary path now.
OcrRun(r, out) ==
    /\ PipeReady
    /\ run[r].pc = "ocr"
    /\ run' = [run EXCEPT ![r].pc = "ocred",
                          ![r].ocr = out,
                          ![r].stdout = IF out = "spawn_err" THEN <<>>
                                        ELSE SwiftStdout(out, file)]
    /\ UNCHANGED <<file, clipboard, main_visible, pipeFrame>>

\* lib.rs 719: fs::remove_file(temp_image_path) leaves no file at the path.
RemoveFile_Skipped(f) == f
RemoveFile(f) == 0

\* lib.rs 715-731 and 930-950: remove the temporary file, classify the
\* output, copy the text and notify.
OcrDone(r, clip) ==
    /\ PipeReady
    /\ run[r].pc = "ocred"
    /\ file' = RemoveFile(file)
    /\ Finish(r, OcrResult(run[r].ocr, run[r].stdout), clip, main_visible)
    /\ UNCHANGED pipeFrame

\* The caller has the value the run returned.
PipelineReturn(r) ==
    /\ run[r].pc = "done"
    /\ run' = [run EXCEPT ![r] = [IdleRun EXCEPT !.pc = "closed"]]
    /\ UNCHANGED <<file, clipboard, main_visible, pipeFrame>>

PipeNext ==
    \/ \E r \in Runs : PipelineBegin(r)
    \/ \E r \in Runs : PipelineSettled(r)
    \/ \E r \in Runs, out \in CaptureOutcomes : CaptureRun(r, out)
    \/ \E r \in Runs, clip \in ClipOutcomes : CaptureDone(r, clip)
    \/ \E r \in Runs, out \in OcrOutcomes : OcrRun(r, out)
    \/ \E r \in Runs, clip \in ClipOutcomes : OcrDone(r, clip)
    \/ \E r \in Runs : PipelineReturn(r)

(***************************************************************************)
(* The window modes: toggle_pet_mode (lib.rs 232-268), toggle_paint_mode   *)
(* (270-311), set_dialog_open (953-957), the focus handler of the main     *)
(* window (1118-1141) and the tray icon click (1092-1115).                 *)
(***************************************************************************)
Sidebar == [big |-> FALSE, click_through |-> FALSE]
IdleToggle == [pc |-> "idle", active |-> FALSE]
IdleFocus == [pc |-> "idle", pm |-> FALSE, ptm |-> FALSE, hid |-> FALSE]

ModeInit ==
    /\ is_pet_mode = FALSE
    /\ is_paint_mode = FALSE
    /\ is_dialog_open = FALSE
    /\ pet = IdleToggle
    /\ paint = IdleToggle
    /\ focus = IdleFocus
    /\ win = Sidebar

\* In a serial behaviour a mode command is invoked only when the previous
\* one has returned.
ModeMayInvoke == serial => (pet.pc = "idle" /\ paint.pc = "idle")

\* lib.rs 238-241: store the flag under its lock.
PetSetFlag(active) ==
    /\ ModeMayInvoke
    /\ pet.pc = "idle"
    /\ is_pet_mode' = active
    /\ pet' = [pc |-> "window", active |-> active]
    /\ UNCHANGED <<is_paint_mode, is_dialog_open, paint, focus, win,
                   main_visible, modeFrame>>

\* lib.rs 245-262: resize the window (every result is dropped), return Ok.
PetWindow ==
    /\ pet.pc = "window"
    /\ win' = IF pet.active
                THEN [big |-> TRUE, click_through |-> TRUE]
                ELSE Sidebar
    /\ pet' = IdleToggle
    /\ UNCHANGED <<is_pet_mode, is_paint_mode, is_dialog_open, paint, focus,
                   main_visible, modeFrame>>

\* lib.rs 276-279
PaintSetFlag(active) ==
    /\ ModeMayInvoke
    /\ paint.pc = "idle"
    /\ is_paint_mode' = active
    /\ paint' = [pc |-> "window", active |-> active]
    /\ UNCHANGED <<is_pet_mode, is_dialog_open, pet, focus, win,
                   main_visible, modeFrame>>

\* lib.rs 283-304
PaintWindow ==
    /\ paint.pc = "window"
    /\ win' = IF paint.active
                THEN [big |-> TRUE, click_through |-> FALSE]
                ELSE Sidebar
    /\ paint' = IdleToggle
    /\ UNCHANGED <<is_pet_mode, is_paint_mode, is_dialog_open, pet, focus,
                   main_visible, modeFrame>>

\* lib.rs 954-956
SetDialogOpen(open) ==
    /\ is_dialog_open' = open
    /\ UNCHANGED <<is_pet_mode, is_paint_mode, pet, paint, focus, win,
                   main_visible, modeFrame>>

\* lib.rs 1123-1128: the visible main window loses the focus; the handler
\* reads is_pet_mode under its lock.
FocusLost ==
    /\ focus.pc = "idle"
    /\ main_visible
    /\ focus' = [pc |-> "paint", pm |-> is_pet_mode, ptm |-> FALSE,
                 hid |-> FALSE]
    /\ UNCHANGED <<is_pet_mode, is_paint_mode, is_dialog_open, pet, paint,
                   win, main_visible, modeFrame>>

\* lib.rs 1129
FocusReadPaint ==
    /\ focus.pc = "paint"
    /\ focus' = [focus EXCEPT !.pc = "dialog", !.ptm = is_paint_mode]
    /\ UNCHANGED <<is_pet_mode, is_paint_mode, is_dialog_open, pet, paint,
                   win, main_visible, modeFrame>>

\* lib.rs 1130-1132: read is_dialog_open; block_on returns the three
\* copies.
FocusReadDialog ==
    /\ focus.pc = "dialog"
    /\ focus' = [focus EXCEPT
                   !.pc = IF ~focus.pm /\ ~focus.ptm /\ ~is_dialog_open
                            THEN "hide" ELSE "idle"]
    /\ UNCHANGED <<is_pet_mode, is_paint_mode, is_dialog_open, pet, paint,
                   win, main_visible, modeFrame>>

\* lib.rs 1134-1136: the three copies were false: hide the window.
FocusHide ==
    /\ focus.pc = "hide"
    /\ main_visible' = FALSE
    /\ focus' = [IdleFocus EXCEPT !.hid = TRUE]
    /\ UNCHANGED <<is_pet_mode, is_paint_mode, is_dialog_open, pet, paint,
                   win, modeFrame>>

\* on_tray_icon_event, lib.rs 1092-1115: a left click on the tray icon
\* hides the main window if it is visible and shows it otherwise.
TrayClick ==
    /\ main_visible' = ~main_visible
    /\ UNCHANGED <<is_pet_mode, is_paint_mode, is_dialog_open, pet, paint,
                   focus, win, modeFrame>>

ModeNext ==
    \/ \E active \in BOOLEAN : PetSetFlag(active)
    \/ PetWindow
    \/ \E active \in BOOLEAN : PaintSetFlag(active)
    \/ PaintWindow
    \/ \E open \in BOOLEAN : SetDialogOpen(open)
    \/ FocusLost
    \/ FocusReadPaint
    \/ FocusReadDialog
    \/ FocusHide
    \/ TrayClick

(***************************************************************************)
(* Pointer motion: toggle_mouse (lib.rs 27-34), the "toggle" item of the   *)
(* tray menu (1075-1089) and the oscillator task (1143-1160).              *)
(***************************************************************************)
StartLabel == "Start Moving Mouse"      \* lib.rs 1061, 1086
StopLabel  == "Stop Moving Mouse"       \* lib.rs 1084
IdleToggler == [pc |-> "idle", read |-> FALSE]
NoMoves == [bit |-> FALSE, last |-> 0, prev |-> 0]

PointerInit ==
    /\ mouse_moving = FALSE
    /\ mm_lock = "free"
    /\ tray = IdleToggler
    /\ cmd = IdleToggler
    /\ tray_label = StartLabel
    /\ toggled_odd = FALSE
    /\ osc = [pc |-> "init", moving |-> FALSE, direction |-> 1]
    /\ moves = NoMoves
    /\ offset = 0
    /\ all_ok = TRUE

\* Mutex::lock().await on mouse_moving: granted when nobody holds it.
MouseLockFree_NoMutex == TRUE
MouseLockFree == mm_lock = "free"

\* lib.rs 1078-1080: the task spawned by the menu event takes the lock and
\* reads the flag.
TrayToggleLock ==
    /\ tray.pc = "idle"
    /\ MouseLockFree
    /\ mm_lock' = "tray"
    /\ tray' = [pc |-> "locked", read |-> mouse_moving]
    /\ UNCHANGED <<mouse_moving, cmd, tray_label, toggled_odd, osc, moves,
                   offset, all_ok, pointerFrame>>

\* lib.rs 1081-1088: store the negation, set the label of the menu item,
\* drop the guard.
TrayToggleWrite ==
    /\ tray.pc = "locked"
    /\ mouse_moving' = ~tray.read
    /\ tray_label' = IF ~tray.read THEN StopLabel ELSE StartLabel
    /\ mm_lock' = "free"
    /\ tray' = IdleToggler
    /\ toggled_odd' = ~toggled_odd
    /\ UNCHANGED <<cmd, osc, moves, offset, all_ok, pointerFrame>>

\* lib.rs 29
CmdToggleLock ==
    /\ cmd.pc = "idle"
    /\ MouseLockFree
    /\ mm_lock' = "cmd"
    /\ cmd' = [pc |-> "locked", read |-> mouse_moving]
    /\ UNCHANGED <<mouse_moving, tray, tray_label, toggled_odd, osc, moves,
                   offset, all_ok, pointerFrame>>

\* lib.rs 30-33
CmdToggleWrite ==
    /\ cmd.pc = "locked"
    /\ mouse_moving' = ~cmd.read
    /\ mm_lock' = "free"
    /\ cmd' = IdleToggler
    /\ toggled_odd' = ~toggled_odd
    /\ UNCHANGED <<tray, tray_label, osc, moves, offset, all_ok,
                   pointerFrame>>

\* lib.rs 1145-1146: Enigo::new(..).unwrap() panics on Err and the task
\* ends before its loop starts.
OscInit(enigo_ok) ==
    /\ osc.pc = "init"
    /\ osc' = [osc EXCEPT !.pc = IF enigo_ok THEN "sleep" ELSE "dead"]
    /\ UNCHANGED <<mouse_moving, mm_lock, tray, cmd, tray_label, toggled_odd,
                   moves, offset, all_ok, pointerFrame>>

\* lib.rs 1148-1153: the 50 ms sleep is over; copy the flag out under the
\* lock.
OscRead ==
    /\ osc.pc = "sleep"
    /\ MouseLockFree
    /\ osc' = [osc EXCEPT !.pc = "act", !.moving = mouse_moving]
    /\ UNCHANGED <<mouse_moving, mm_lock, tray, cmd, tray_label, toggled_odd,
                   moves, offset, all_ok, pointerFrame>>

\* lib.rs 1157: direction = -direction, inside if moving.
NextDirection_EveryTick(moving, direction) == -direction
NextDirection(moving, direction) == IF moving THEN -direction ELSE direction

\* lib.rs 1156: where the pointer is, relative to where it was when the
\* task started, after move_mouse(direction, 0, Rel) was or was not called.
MovedTo(moving, move_ok, direction) ==
    IF moving /\ move_ok THEN offset + direction ELSE offset

\* lib.rs 1155-1158: if the copy is true, ask for a relative move of
\* (direction, 0), drop the result and negate the direction.
\* move_ok: move_mouse returned Ok and the pointer is dx further.
OscAct_Always(move_ok) ==
    /\ osc.pc = "act"
    /\ moves' = [bit |-> ~moves.bit, last |-> osc.direction,
                 prev |-> moves.last]
    /\ offset' = MovedTo(TRUE, move_ok, osc.direction)
    /\ offset' \in -MaxDrift..MaxDrift
    /\ all_ok' = (all_ok /\ move_ok)
    /\ osc' = [pc |-> "sleep", moving |-> FALSE,
               direction |-> -osc.direction]
    /\ UNCHANGED <<mouse_moving, mm_lock, tray, cmd, tray_label, toggled_odd,
                   pointerFrame>>
OscAct(move_ok) ==
    /\ osc.pc = "act"
    /\ moves' = IF osc.moving
                  THEN [bit |-> ~moves.bit, last |-> osc.direction,
                        prev |-> moves.last]
                  ELSE moves
    /\ offset' = MovedTo(osc.moving, move_ok, osc.direction)
    /\ offset' \in -MaxDrift..MaxDrift
    /\ all_ok' = (all_ok /\ (osc.moving => move_ok))
    /\ osc' = [pc |-> "sleep", moving |-> FALSE,
               direction |-> NextDirection(osc.moving, osc.direction)]
    /\ UNCHANGED <<mouse_moving, mm_lock, tray, cmd, tray_label, toggled_odd,
                   pointerFrame>>

PointerNext ==
    \/ TrayToggleLock
    \/ TrayToggleWrite
    \/ CmdToggleLock
    \/ CmdToggleWrite
    \/ \E enigo_ok \in BOOLEAN : OscInit(enigo_ok)
    \/ OscRead
    \/ \E move_ok \in BOOLEAN : OscAct(move_ok)

\* The main window is created visible (tauri's default).
(***************************************************************************)
(* The seven mutexes of AppState (lib.rs 11-19) and the order in which     *)
(* each task locks and unlocks them.  A guard that is a temporary of one   *)
(* statement is dropped at the end of the statement; a guard bound with    *)
(* let is dropped at the end of its block.                                 *)
(***************************************************************************)
Locks == {"mouse_moving", "is_pet_mode", "is_paint_mode", "is_dialog_open",
          "shutdown_cancel_tx", "shutdown_target", "shutdown_duration"}
Acq(l) == [op |-> "lock", of |-> l]
Rel(l) == [op |-> "drop", of |-> l]
Scoped(l) == <<Acq(l), Rel(l)>>

\* lib.rs 514-524, then 534 and 535
ScheduleLocks_TargetFirst ==
    <<Acq("shutdown_target"), Acq("shutdown_cancel_tx"),
      Rel("shutdown_cancel_tx"), Rel("shutdown_target")>>
        \o Scoped("shutdown_duration")
ScheduleLocks ==
    Scoped("shutdown_cancel_tx") \o Scoped("shutdown_target")
        \o Scoped("shutdown_duration")
\* lib.rs 611-623: tx_lock lives until the function returns.
CancelLocks ==
    <<Acq("shutdown_cancel_tx")>> \o Scoped("shutdown_target")
        \o Scoped("shutdown_duration") \o <<Rel("shutdown_cancel_tx")>>
\* lib.rs 628-629
StatusLocks == Scoped("shutdown_target") \o Scoped("shutdown_duration")
\* lib.rs 1127-1130
FocusLocks ==
    Scoped("is_pet_mode") \o Scoped("is_paint_mode")
        \o Scoped("is_dialog_open")

LockTasks == {"toggle_mouse", "tray_toggle", "oscillator", "toggle_pet_mode",
              "toggle_paint_mode", "set_dialog_open", "focus_lost",
              "schedule_shutdown", "cancel_shutdown", "get_shutdown_time"}

LockPlan(t) ==
    CASE t = "toggle_mouse"      -> Scoped("mouse_moving")      \* 28-33
      [] t = "tray_toggle"       -> Scoped("mouse_moving")      \* 1080-1088
      [] t = "oscillator"        -> Scoped("mouse_moving")      \* 1149-1152
      [] t = "toggle_pet_mode"   -> Scoped("is_pet_mode")       \* 237-240
      [] t = "toggle_paint_mode" -> Scoped("is_paint_mode")     \* 275-278
      [] t = "set_dialog_open"   -> Scoped("is_dialog_open")    \* 955
      [] t = "focus_lost"        -> FocusLocks
      [] t = "schedule_shutdown" -> ScheduleLocks
      [] t = "cancel_shutdown"   -> CancelLocks
      [] t = "get_shutdown_time" -> StatusLocks

\* Every task is about to lock its first mutex: a command is invoked
\* again, an event arrives again, as soon as the last one has been handled,
\* which is when the mutexes are contended most.
LockInit == at = [t \in LockTasks |-> 1]

\* Task t has locked l and not dropped it.
Holds(t, l) ==
    \E j \in 1..(at[t] - 1) :
        /\ LockPlan(t)[j] = Acq(l)
        /\ \A i \in (j + 1)..(at[t] - 1) : LockPlan(t)[i] # Rel(l)
\* Task t is at l.lock().await.
Requests(t, l) == LockPlan(t)[at[t]] = Acq(l)
Advance(t) ==
    at' = [at EXCEPT ![t] = IF @ = Len(LockPlan(t)) THEN 1 ELSE @ + 1]

\* Mutex::lock().await returns when nobody holds the mutex.
LockAcquire(t) ==
    /\ \E l \in Locks : /\ Requests(t, l)
                         /\ \A u \in LockTasks : ~Holds(u, l)
    /\ Advance(t)
    /\ UNCHANGED lockFrame

\* The guard is dropped.
LockRelease(t) ==
    /\ LockPlan(t)[at[t]].op = "drop"
    /\ Advance(t)
    /\ UNCHANGED lockFrame

LockNext ==
    \/ \E t \in LockTasks : LockAcquire(t)
    \/ \E t \in LockTasks : LockRelease(t)

WinInit == main_visible = TRUE
\* When the first run starts the main window is visible or was hidden (by
\* a click on the tray icon or on losing the focus).
InitPipeline ==
    /\ SchedInit /\ GestureInit /\ PipeInit /\ ModeInit /\ PointerInit
    /\ LockInit /\ serial = FALSE
    /\ main_visible \in BOOLEAN

Init ==
    /\ SchedInit /\ GestureInit /\ PipeInit /\ WinInit /\ ModeInit
    /\ PointerInit /\ LockInit /\ serial = FALSE
InitSerial ==
    /\ SchedInit /\ GestureInit /\ PipeInit /\ WinInit /\ ModeInit
    /\ PointerInit /\ LockInit /\ serial = TRUE
Next == SchedNext

\* Commands invoked concurrently (tauri runs async commands on a
\* multi-threaded runtime).
Spec == Init /\ [][Next]_vars
\* Commands invoked one at a time (each awaited before the next).
SpecSerial == InitSerial /\ [][Next]_vars
\* Concurrent schedule_shutdown and cancel_shutdown calls, no reader.
SpecCommands == Init /\ [][CommandNext]_vars
\* Concurrent schedule_shutdown calls alone.
SpecSchedules == Init /\ [][ScheduleNext]_vars

\* The runtime keeps polling every task that can make progress, and time
\* passes; only the invocation of commands is left to the user.  (Strong
\* fairness for the steps that wait while a status() answer is delivered.)
ScheduleStep ==
    \E c \in Calls :
        \/ ScheduleSwapTx(c) \/ ScheduleSetTarget(c) \/ ScheduleSetDuration(c)
        \/ \E built \in BOOLEAN : ScheduleWindow(c, built)
TimerStep == \E c \in Calls : TimerStart(c) \/ TimerFire(c) \/ TimerAbort(c)
CancelStep == CancelClearTarget \/ CancelFinish
StatusStep == StatusReadDuration \/ StatusReturn
SchedFairness ==
    /\ WF_vars(ScheduleStep)
    /\ WF_vars(CancelStep)
    /\ WF_vars(StatusStep)
    /\ SF_vars(TimerStep)
    /\ SF_vars(Tick)
FairSpecSerial == SpecSerial /\ SchedFairness

\* The key listener thread alone.
SpecGesture ==
    Init /\ [][GestureNext]_vars

\* The mode commands, the focus handler and the tray icon, concurrently.
SpecModes == Init /\ [][ModeNext]_vars

\* The same, with the mode commands invoked one after the other.
SpecModesSerial == InitSerial /\ [][ModeNext]_vars

\* The pointer toggles and the oscillator task, concurrently.
SpecPointer == Init /\ [][PointerNext]_vars
\* The runtime keeps polling every task that can make progress; tokio's
\* Mutex is fair, so a task waiting for it gets it.
PointerFairness ==
    /\ WF_vars(TrayToggleWrite)
    /\ WF_vars(CmdToggleWrite)
    /\ WF_vars(\E enigo_ok \in BOOLEAN : OscInit(enigo_ok))
    /\ SF_vars(OscRead)
    /\ WF_vars(\E move_ok \in BOOLEAN : OscAct(move_ok))
FairSpecPointer == SpecPointer /\ PointerFairness

\* The tasks that lock the mutexes of AppState, concurrently.
SpecLocks == Init /\ [][LockNext]_vars

\* Pipeline runs, started by the command or by the key listener.
SpecPipeline == InitPipeline /\ [][PipeNext]_vars

TypeOK ==
    /\ now \in 0..MaxTime
    /\ shutdown_cancel_tx \in 0..MaxCalls
    /\ shutdown_target \in {None} \cup 1..(MaxTime + MaxDelay)
    /\ shutdown_duration \in {None} \cup 1..MaxDelay

(***************************************************************************)
(* Properties of the scheduler.                                            *)
(***************************************************************************)

\* Timer tasks (spawned, or about to be spawned by a running call) whose
\* Receiver exists and has not been signalled.
LiveTimers == {c \in Calls : RxAlive(c) /\ ~signalled[c]}

\* Serial behaviours: the last command that returned is a schedule() call
\* with a positive delay, and no command has been invoked since.
LastIsSchedule == \E c \in Calls : log.last = SchedOp(c)

\* C1: after schedule(d1) and then schedule(d2), the second taking the
\* first's handle before the first sleep ran out, and until the second
\* timer fires: exactly one live timer remains (the second), status()
\* reports the second call's target and duration, and the first timer has
\* not run the shutdown command.
C1_RescheduleSupersedes ==
    \A c1, c2 \in Calls :
        (/\ stat.pc = "done"
         /\ log.last = SchedOp(c2) /\ log.prev = SchedOp(c1)
         /\ retired[c1] = SchedOp(c2)
         /\ timer[c2].state # "fired")
        => /\ LiveTimers = {c2}
           /\ StatusResult.duration_secs = log.d
           /\ StatusResult.target_timestamp - log.d \in log.start..log.ret
           /\ shutdowns[c1] = 0

\* C2: a timer whose handle cancel() signalled, after its schedule() call
\* returned and before its sleep ran out, never runs the shutdown command,
\* and status() after cancel() reports target 0, duration 0.
C2_CancelPrevents ==
    /\ \A c \in Calls : retired[c] = CancelOp => shutdowns[c] = 0
    /\ (stat.pc = "done" /\ log.last = CancelOp)
         => StatusResult = [target_timestamp |-> 0, duration_secs |-> 0]

C4_ZeroDelayRejected ==
    [][\A c \in Calls :
          (call[c].pc = "idle" /\ call'[c].pc # "idle" /\ call'[c].d = 0)
          => /\ call'[c].pc = "err"
             /\ UNCHANGED <<shutdown_cancel_tx, shutdown_target,
                            shutdown_duration, tx_lock, island, timer,
                            signalled, shutdowns>>]_vars
\* Call 2 was rejected while call 1's handle is installed and its timer is
\* asleep and un-signalled.
C4_Witness ==
    /\ call[2].pc = "err" /\ shutdown_cancel_tx = 1 /\ log = NoLog
    /\ timer[1].state = "sleeping" /\ ~signalled[1] /\ island
    /\ shutdown_target # None /\ shutdown_duration # None

\* C5: status() right after a schedule(d) call, d > 0, that ran alone
\* reports duration d and a target d seconds after an instant of the call
\* (between its invocation and its return).
C5_StatusAfterSchedule ==
    (stat.pc = "done" /\ LastIsSchedule)
    => /\ StatusResult.duration_secs = log.d
       /\ StatusResult.target_timestamp - log.d \in log.start..log.ret
C5_Witness ==
    /\ stat.pc = "done" /\ LastIsSchedule
    /\ log.d = 1 /\ log.start = 0 /\ log.ret = 1
    /\ StatusResult = [target_timestamp |-> 2, duration_secs |-> 1]

\* C6: once the timer of the last schedule() call has fired without having
\* been signalled, status() reports target 0 and duration 0 and no handle
\* is stored.
C6_FiredClearsDescriptor ==
    \A c \in Calls :
        (/\ stat.pc = "done" /\ log.last = SchedOp(c)
         /\ timer[c].state = "fired" /\ ~signalled[c])
        => /\ StatusResult = [target_timestamp |-> 0, duration_secs |-> 0]
           /\ shutdown_cancel_tx = 0

\* C7: a schedule() call that returned Ok runs the shutdown command at
\* most once, and eventually runs it unless its handle is signalled (by a
\* cancel() or a later schedule()): from some point on, every call that
\* returned Ok has run the command once or has been signalled.
C7_FiresExactlyOnce ==
    /\ [](\A c \in Calls : shutdowns[c] <= 1)
    /\ <>[](\A c \in Calls :
              call[c].pc = "ok" => (shutdowns[c] = 1 \/ signalled[c]))
C7_Witness ==
    \E c \in Calls : call[c].pc = "ok" /\ shutdowns[c] = 1 /\ ~signalled[c]

\* C8: a schedule() call that reached the creation of the island window
\* returns Ok with its timer task spawned, whether or not the window
\* could be created.
C8_WindowFailureIgnored ==
    [][\A c \in Calls :
          (call[c].pc = "window" /\ call'[c].pc # "window")
          => (call'[c].pc = "ok" /\ timer'[c].state = "spawned")]_vars

(***************************************************************************)
(* Properties of the key listener.                                         *)
(***************************************************************************)

\* C9: of any three consecutive rising edges whose two gaps are below
\* 500 ms, exactly one spawns a pipeline run.
C9_TripleTapOneRun ==
    (Len(hist) = 3 /\ hist[2].short /\ hist[3].short)
    => Cardinality({i \in 1..3 : hist[i].ran}) = 1
\* Three quick edges the first of which already completed an earlier
\* triple; three quick edges that follow a long pause.
C9_Witness ==
    /\ Len(hist) = 3 /\ hist[2].short /\ hist[3].short
    /\ hist[1].ran /\ triggers = 1
C9_WitnessFresh ==
    /\ Len(hist) = 3 /\ hist[2].short /\ hist[3].short
    /\ ~hist[1].short /\ hist[3].ran

\* C10: while every gap between two rising edges has been 500 ms or more,
\* the counter is 1 after each edge and no pipeline run was spawned.
C10_SlowTapsNeverTrigger ==
    (slow /\ prevEdge # None) => (tap_count = 1 /\ triggers = 0)
\* Three edges exactly 500 ms apart.
C10_Witness ==
    /\ slow /\ Len(hist) = 3 /\ prevEdge = 2 * Debounce


\* C27: a poll that does not find the key newly pressed (it is still held
\* from the last poll, or it is up) leaves tap_count and last_tap as they
\* are and spawns no run.
C27_NonEdgePollIsNoTap ==
    [][~(ctrl_was_pressed' /\ ~ctrl_was_pressed)
          => /\ tap_count' = tap_count
             /\ last_tap' = last_tap
             /\ triggers' = triggers]_vars
\* The key has been held over several polls since its one press.
C27_Witness ==
    /\ ctrl_was_pressed /\ tap_count = 1 /\ triggers = 0
    /\ gnow - last_tap > Debounce

\* C18: once two concurrent schedule_shutdown calls, the only ones, have
\* both returned Ok, shutdown_duration is the delay of the call whose
\* Sender is installed: the delay its timer task was spawned with (seen
\* before the first poll of that task).
C18_ConcurrentSchedulesAgree ==
    (/\ MaxCalls >= 2
     /\ \A c \in Calls : call[c].pc = IF c <= 2 THEN "ok" ELSE "idle"
     /\ shutdown_cancel_tx # 0
     /\ timer[shutdown_cancel_tx].state = "spawned")
        => shutdown_duration = timer[shutdown_cancel_tx].d

\* The timer task of call c can still run the shutdown command.
CanFire(c) == timer[c].state \in {"spawned", "sleeping"} /\ ~signalled[c]

\* C19: once the only schedule_shutdown call has returned Ok and
\* cancel_shutdown has returned, and the timer has not fired, either the
\* timer can still fire and target and duration are stored, or it cannot,
\* target and duration are None and there is no island window.
C19_ScheduleCancelConsistent ==
    (/\ \A c \in Calls : call[c].pc = IF c = 1 THEN "ok" ELSE "idle"
     /\ cancel.pc = "idle"
     /\ timer[1].state # "fired")
        => \/ /\ CanFire(1)
              /\ shutdown_target # None /\ shutdown_duration # None
           \/ /\ ~CanFire(1)
              /\ shutdown_target = None /\ shutdown_duration = None
              /\ ~island

\* C20: the answer of get_shutdown_time has a target exactly if it has a
\* duration.
C20_StatusNotTorn ==
    stat.pc = "done" => ((stat.tgt = None) <=> (stat.dur = None))

(***************************************************************************)
(* Properties of the pipeline.                                             *)
(***************************************************************************)
RunDone(r) == run[r].pc = "done"

\* C11: when a run that no other run overlapped completes, whatever its
\* stages reported, the main window is visible exactly if it was visible
\* when the run started.
C11_VisibilityRestored ==
    \A r \in Runs :
        (RunDone(r) /\ run[r].alone) => main_visible = run[r].was_visible

\* C12: a completed run that copied the text has emitted exactly one toast,
\* the success toast; one that returned Err has emitted exactly one toast,
\* whose message contains the returned error; one whose capture was
\* aborted, or that returned Ok without copying anything, has emitted none.
C12_OneNotification ==
    \A r \in Runs :
        RunDone(r) =>
            /\ (run[r].ret.ok /\ run[r].clip # "none")
                  => run[r].toasts = 1 /\ run[r].toast.title = "Text Copied!"
            /\ ~run[r].ret.ok
                  => /\ run[r].toasts = 1
                     /\ Contains(run[r].toast.message, run[r].ret.val)
            /\ (run[r].cap = "aborted" \/ (run[r].ret.ok /\ run[r].clip = "none"))
                  => run[r].toasts = 0

\* C13: a completed run whose screencapture process wrote no file has
\* returned Ok(""), has run neither swift nor pbcopy and has emitted no
\* toast.
C13_AbortedCaptureSilent ==
    \A r \in Runs :
        (RunDone(r) /\ run[r].cap \in {"aborted", "exit_err"})
            => /\ run[r].ret = Ok(<<>>)
               /\ run[r].ocr = "none"
               /\ run[r].clip = "none"
               /\ run[r].toasts = 0

\* C21: at no time are two pipeline runs active (started and not yet
\* completed).
C21_AtMostOneRun ==
    Cardinality({r \in Runs : RunActive(r)}) <= 1

\* What a run returns and notifies when only the outcomes of its own three
\* external processes count: its own screencapture wrote the file or did
\* not, and swift read the file of this run.
OwnResult(r) ==
    IF run[r].cap = "spawn_err"
      THEN ProcessResult(Err(<<"Screencapture failed: ", "io error">>),
                         run[r].clip)
      ELSE IF run[r].cap # "selected"
             THEN ProcessResult(Ok(<<>>), run[r].clip)
             ELSE ProcessResult(
                      OcrResult(run[r].ocr,
                                IF run[r].ocr = "spawn_err" THEN <<>>
                                ELSE SwiftStdout(run[r].ocr, r)),
                      run[r].clip)

\* C22: the value a completed run returned and the toast it emitted are
\* those that the outcomes of its own capture, text-recognition and
\* clipboard stages determine, whatever other runs did in the meantime.
C22_RunsIndependent ==
    \A r \in Runs :
        RunDone(r) => /\ run[r].ret = OwnResult(r).ret
                      /\ run[r].toast = OwnResult(r).toast

\* An external process that could not be started or that exited with a
\* failure status.
Failed == {"spawn_err", "exit_err"}

\* C23: a completed run that no other run overlapped has emitted the
\* success toast only if none of its three external processes failed, and
\* if one of them failed it has returned Err and emitted exactly one toast,
\* a failure toast.
C23_ProcessFailureIsFailure ==
    \A r \in Runs :
        (RunDone(r) /\ run[r].alone) =>
            /\ run[r].toast.title = "Text Copied!"
                  => /\ run[r].cap = "selected"
                     /\ run[r].ocr \notin Failed
                     /\ run[r].clip = "ok"
            /\ (run[r].cap \in Failed \/ run[r].ocr \in Failed
                   \/ run[r].clip \in Failed)
                  => /\ ~run[r].ret.ok
                     /\ run[r].toasts = 1
                     /\ run[r].toast.title \in {"OCR Failed", "OCR Error"}

\* C24: the message of the toast of a completed run that returned Err is
\* the returned error string, token for token.
C24_ToastIsReturnedError ==
    \A r \in Runs :
        (RunDone(r) /\ ~run[r].ret.ok)
            => run[r].toast.message = run[r].ret.val

\* C25: when a run whose screencapture wrote the temporary file and whose
\* text-recognition stage ran (with or without success) has completed, the
\* file that its capture wrote is no longer at the temporary path.
C25_TempFileRemoved ==
    \A r \in Runs :
        (RunDone(r) /\ run[r].cap = "selected" /\ run[r].ocr # "none")
            => file # r
C25_Witness ==
    /\ RunDone(1) /\ run[1].cap = "selected" /\ run[1].ocr = "spawn_err"
    /\ ~run[1].ret.ok /\ file = 0

(***************************************************************************)
(* Properties of the window modes and of the pointer motion.               *)
(***************************************************************************)

\* C14: in a step in which the focus handler hides the main window,
\* is_pet_mode, is_paint_mode and is_dialog_open are all false.
C14_AutoHideOnlyWhenNoMode ==
    [][(focus'.hid /\ ~focus.hid)
          => (~is_pet_mode /\ ~is_paint_mode /\ ~is_dialog_open)]_vars

\* C26: in every state, is_pet_mode is true only if the main window is in
\* the maximized, always-on-top, click-through configuration, and false
\* only if the window is not click-through.
C26_NoTornModeUpdate ==
    /\ is_pet_mode => (win.big /\ win.click_through)
    /\ ~is_pet_mode => ~win.click_through

\* C29: when toggle_pet_mode and toggle_paint_mode are called one after the
\* other and none is in progress, the main window is maximized and always
\* on top exactly if is_pet_mode or is_paint_mode is true.
C29_WindowMatchesModes ==
    (pet.pc = "idle" /\ paint.pc = "idle")
        => (win.big <=> (is_pet_mode \/ is_paint_mode))

\* C15: mouse_moving is the negation of its initial value (false) exactly
\* when an odd number of toggles, from the tray menu and from
\* toggle_mouse, has completed.
C15_TogglesNotLost == mouse_moving = toggled_odd
C15_Witness ==
    /\ tray_label = StopLabel /\ ~mouse_moving /\ ~toggled_odd
    /\ tray.pc = "idle" /\ cmd.pc = "idle"

\* C28: when neither the tray toggle nor toggle_mouse is in progress, the
\* label of the tray menu item is "Stop Moving Mouse" if mouse_moving is
\* true and "Start Moving Mouse" if it is false.
C28_TrayLabelMatches ==
    (tray.pc = "idle" /\ cmd.pc = "idle")
        => tray_label = IF mouse_moving THEN StopLabel ELSE StartLabel

\* C16: the oscillator calls move_mouse only in a tick whose copy of
\* mouse_moving is true; the call is for one unit to the right or to the
\* left, and in the direction opposite to the previous call.
C16_MovesAlternate ==
    [][moves' # moves
          => /\ osc.moving
             /\ moves'.last \in {1, -1}
             /\ moves.last # 0 => moves'.last = -moves.last]_vars
C16_Witness ==
    /\ moves.prev = -1 /\ moves.last = 1
    /\ ~mouse_moving /\ osc.pc = "sleep"

\* C31: as long as every move_mouse call has returned Ok, the pointer is
\* where it was when the oscillator started or one unit to the right of it,
\* whatever ticks and toggles there have been; and a tick whose move_mouse
\* call fails (a call was made, the pointer did not move) negates the
\* direction all the same.
C31_NoPointerDrift ==
    /\ [](all_ok => offset \in {0, 1})
    /\ [][(moves' # moves /\ offset' = offset)
            => osc'.direction = -osc.direction]_vars
\* The pointer has gone right, left and right again and the motion has
\* been switched off.
C31_Witness ==
    /\ all_ok /\ offset = 1 /\ moves.prev = -1 /\ moves.last = 1
    /\ osc.direction = -1 /\ ~mouse_moving /\ tray.pc = "idle"
    /\ cmd.pc = "idle"

\* C17: the oscillator loop never exits: it performs a tick again and
\* again.
C17_LoopsNeverExit == []<>(osc.pc = "act")

(***************************************************************************)
(* Properties of the locks.                                                *)
(***************************************************************************)
\* The tasks that hold the mutex for which task t is waiting.
WaitsFor(t) ==
    {u \in LockTasks : \E l \in Locks : Requests(t, l) /\ Holds(u, l)}
\* Task t is not waiting, or the tasks it is waiting for are not waiting,
\* or the tasks these are waiting for, and so on for at most n tasks.
RECURSIVE EndsAtRunning(_, _)
EndsAtRunning(t, n) ==
    \/ WaitsFor(t) = {}
    \/ n > 0 /\ \A u \in WaitsFor(t) : EndsAtRunning(u, n - 1)

\* C30: in no reachable state is a task waiting for a mutex of AppState in
\* a circle of tasks that wait for one another: from every waiting task
\* the chain of holders ends at a task that is running and will drop its
\* guard, so that tokio's fair Mutex hands the lock on to the waiter.
C30_NoLockDeadlock ==
    \A t \in LockTasks : EndsAtRunning(t, Cardinality(LockTasks))
\* cancel_shutdown holds shutdown_cancel_tx and waits for shutdown_target,
\* which get_shutdown_time holds, while schedule_shutdown waits for
\* shutdown_cancel_tx.
C30_Witness ==
    /\ Holds("cancel_shutdown", "shutdown_cancel_tx")
    /\ Requests("cancel_shutdown", "shutdown_target")
    /\ Holds("get_shutdown_time", "shutdown_target")
    /\ Requests("schedule_shutdown", "shutdown_cancel_tx")

====
